---- MODULE Spec2Model ----
(***************************************************************************)
(* Model of the GELF UDP writer of gelf_writer.go: UDPWriter.WriteMessage  *)
(* (lock, encode, compressor selection, compression, framing) and          *)
(* UDPWriter.writeChunked (chunk loop), with the datagrams handed to the   *)
(* connection recorded in `conn`.                                          *)
(*                                                                         *)
(* Byte buffers are described, not enumerated: a buffer is                 *)
(* [fmt, level, len]; byte k of a buffer is identified by its position k,  *)
(* so a slice of a buffer is the pair (off, len).                          *)
(***************************************************************************)
EXTENDS Integers, Sequences, FiniteSets, TLC

\* ------------------------------------------------------------------ bounds
NumCallers == 2
MaxFullChunks == 2
NumIds == 2
MaxInput == 3
MaxFields == 2

\* ------------------------------------------------------- program constants
ChunkSize == 1420
chunkedHeaderLen == 12
chunkedDataLen == ChunkSize - chunkedHeaderLen
magicChunked == <<30, 15>>
msgIdLen == 8
CompressGzip == 0
CompressZlib == 1
NoCompress == 2
maxChunks == 255

Callers == 1..NumCallers
MsgIds == 1..NumIds

\* ------------------------------------------------------------------- state
VARIABLES
    mu,                  \* w.mu: TRUE while locked
    CompressionType,     \* w.CompressionType
    CompressionLevel,    \* w.CompressionLevel
    zw,                  \* w.zw: the cached compressor
    zwCompressionType,   \* w.zwCompressionType
    zwCompressionLevel,  \* w.zwCompressionLevel
    conn,                \* datagrams handed to w.conn.Write since the
                         \* connection was last idle, in call order
    pc,                  \* per caller: position inside WriteMessage
    mBytes,              \* per caller: local mBytes
    zBytes,              \* per caller: local zBytes
    nChunks,             \* per caller: writeChunked's uint8 nChunks
    msgId,               \* per caller: writeChunked's msgId
    idx,                 \* per caller: writeChunked's uint8 loop counter i
    bytesLeft,           \* per caller: writeChunked's bytesLeft
    err,                 \* per caller: how the call ends
    swType,              \* per caller: w.CompressionType as the switch read it
    rdLevel,             \* per caller: w.CompressionLevel as last read
    wIn,                 \* UDPWriter.Write: the slice the caller passed
    wP,                  \* UDPWriter.Write: local p
    wMsg,                \* UDPWriter.Write: the Message it builds
    wRet,                \* UDPWriter.Write: what the call returned
    cpc,                 \* codec: position of the encode/decode exercise
    cRec,                \* codec: the Message given to MarshalJSON
    cData,               \* codec: the JSON text given to UnmarshalJSON
    cOut                 \* codec: how UnmarshalJSON ended, and its Message

vars == <<mu, CompressionType, CompressionLevel, zw, zwCompressionType,
          zwCompressionLevel, conn, pc, mBytes, zBytes, nChunks, msgId,
          idx, bytesLeft, err, swType, rdLevel, wIn, wP, wMsg, wRet,
          cpc, cRec, cData, cOut>>

sendVars == <<mu, CompressionType, CompressionLevel, zw, zwCompressionType,
              zwCompressionLevel, conn, pc, mBytes, zBytes, nChunks, msgId,
              idx, bytesLeft, err, swType, rdLevel>>
sendLocals == <<swType, rdLevel>>
adapterVars == <<wIn, wP, wMsg, wRet>>
codecVars == <<cpc, cRec, cData, cOut>>
extVars == <<adapterVars, codecVars>>

writerVars == <<CompressionType, CompressionLevel, zw, zwCompressionType,
                zwCompressionLevel>>
chunkLocals == <<nChunks, msgId, idx, bytesLeft>>

\* ----------------------------------------------------------------- helpers
NoBytes == [fmt |-> "none", level |-> 0, len |-> 0]
NilZw == [impl |-> "nil", level |-> 0, ptr |-> FALSE]

Min(a, b) == IF a < b THEN a ELSE b

\* numChunks with the single-datagram test made strict.
numChunksStrict(lenB) ==
    IF lenB < ChunkSize THEN 1 ELSE (lenB \div chunkedDataLen) + 1

\* numChunks without the single-datagram case.
numChunksNoSingle(lenB) == (lenB \div chunkedDataLen) + 1

\* numChunks rounding down.
numChunksFloor(lenB) ==
    IF lenB <= ChunkSize THEN 1 ELSE lenB \div chunkedDataLen

\* numChunks: the number of chunks used for a buffer of lenB bytes.
numChunks(lenB) ==
    IF lenB <= ChunkSize THEN 1 ELSE (lenB \div chunkedDataLen) + 1

\* A signed 8-bit conversion.
Int8(n) == IF n % 256 >= 128 THEN (n % 256) - 256 ELSE n % 256

\* uint8 conversion and increment
Uint8(n) == n % 256

\* gzip.NewWriterLevel / zlib.NewWriterLevel: a compressor for a level in
\* flate.HuffmanOnly..flate.BestCompression, a nil pointer and an error
\* otherwise.
LevelValid(l) == l >= -2 /\ l <= 9
NewWriterLevel(impl, l) ==
    [impl |-> impl, level |-> l, ptr |-> LevelValid(l)]

bufferedWriter == [impl |-> "buffered", level |-> 0, ptr |-> TRUE]

\* A local of a send that holds no value read from the writer yet.
NotRead == -3

\* The switch on w.CompressionType with a compressor z at hand: the
\* pass-through case makes a new bufferedWriter, every other case that
\* constructs nothing leaves w.zw as it is.
SelectWriter(z) ==
    CASE CompressionType = NoCompress -> bufferedWriter
      [] OTHER -> z

\* The gzip and zlib cases construct when w.zw == nil.
Constructs(z) ==
    CompressionType \in {CompressGzip, CompressZlib} /\ z = NilZw

\* A switch without its default branch.
KnownTypeAny == TRUE

KnownType == CompressionType \in {CompressGzip, CompressZlib, NoCompress}

\* w.zw.Reset(&zBuf); w.zw.Write(mBytes); w.zw.Close(): the contents of
\* zBuf.  The pass-through writer copies its input; a gzip or zlib writer
\* emits a stream of its own format whose length zlen is the library's.
Compressed(z, mb, zlen) ==
    IF z.impl = "buffered" THEN mb
    ELSE [fmt |-> z.impl, level |-> z.level, len |-> zlen]

\* The capacity check letting one chunk too many through.
TooLargeOffByOne(n) == n > maxChunks + 1

\* The capacity check of writeChunked.
TooLarge(n) == n > maxChunks

\* The loop condition of writeChunked.
LoopCond(i, n) == i < n

\* The chunk length bounded by the frame size instead of the data size.
ChunkLenFrame(left) == Min(ChunkSize, left)

\* The chunk offset stepping by the header length.
ChunkOffHeader(i) == i * chunkedHeaderLen

\* The length and the offset of chunk i's slice of zBytes.
ChunkLen(left) == Min(chunkedDataLen, left)
ChunkOff(i) == i * chunkedDataLen

\* A one-based sequence byte; a total byte holding the last index.
SeqByteOneBased(i) == i + 1
TotalByteLastIndex(n) == n - 1

\* The sequence byte and the total byte of a chunk header.
SeqByte(i) == i
TotalByte(n) == n

\* conn.Write on a buffer of size bytes: (n, err) for each kind of
\* outcome: a full write, a write error, a short write.
ConnWrite(size, kind) ==
    CASE kind = "ok" -> [n |-> size, err |-> FALSE]
      [] kind = "werr" -> [n |-> 0, err |-> TRUE]
      [] kind = "short" -> [n |-> size - 1, err |-> FALSE]

\* The checks after conn.Write without the length comparison.
WriteCheckErrOnly(r, size) == IF r.err THEN "werr" ELSE "nil"

\* The checks after conn.Write: how the send ends, "nil" to go on.
WriteCheck(r, size) ==
    IF r.err THEN "werr" ELSE IF r.n # size THEN "short" ELSE "nil"

\* Length of a chunk header as writeChunked writes it.
HeaderLen == Len(magicChunked) + msgIdLen + 1 + 1

\* A datagram handed to conn.Write, with what the call returned.
Datagram(c, chunked, id, seq, total, buf, off, n, kind) ==
    LET size == (IF chunked THEN HeaderLen ELSE 0) + n
    IN  [by |-> c, chunked |-> chunked,
         magic |-> IF chunked THEN magicChunked ELSE <<>>,
         id |-> id, seq |-> seq, total |-> total,
         buf |-> buf, off |-> off, len |-> n,
         size |-> size,
         res |-> ConnWrite(size, kind)]

\* ---------------------------------------------------- the stream adapter
\* Bytes are " " and "\n" (white space) and "a" (any other byte).
IsSpace(ch) == ch \in {" ", "\n"}

\* bytes.TrimSpace
TrimSpace(p) ==
    LET keep == {i \in 1..Len(p) : ~IsSpace(p[i])}
    IN  IF keep = {} THEN <<>>
        ELSE SubSeq(p, CHOOSE i \in keep : \A j \in keep : i <= j,
                       CHOOSE i \in keep : \A j \in keep : i >= j)

\* bytes.IndexRune: the 0-based index of the first r in p, -1 if none.
IndexRune(p, r) ==
    LET at == {i \in 1..Len(p) : p[i] = r}
    IN  IF at = {} THEN -1
        ELSE (CHOOSE i \in at : \A j \in at : i <= j) - 1

\* The Message that Write builds from the trimmed input.
BuildMessage(p) ==
    LET i == IndexRune(p, "\n")
    IN  [Version |-> "1.0",
         Short |-> IF i > 0 THEN SubSeq(p, 1, i) ELSE p,
         Full |-> IF i > 0 THEN p ELSE <<>>,
         Level |-> 6]

NoMessage == [Version |-> "", Short |-> <<>>, Full |-> <<>>, Level |-> 0]
NoReturn == [n |-> -1, err |-> "none"]

\* What Write returns once WriteMessage has ended with e; a panic of
\* WriteMessage passes through Write.
WriteResult(p, e) ==
    IF e = "panic" THEN [n |-> -1, err |-> "panic"]
    ELSE IF e # "nil" THEN [n |-> 0, err |-> e]
    ELSE [n |-> Len(p), err |-> "nil"]

\* -------------------------------------------------------------- the codec
\* A Go value in a struct field or an interface{}: its dynamic type t and
\* its value, in s for a string ("NaN" for the float64 NaN) and in n for a
\* number (1 and 0 for true and false).
GoValue(t, s, n) == [t |-> t, s |-> s, n |-> n]
GoNil == GoValue("nil", "", 0)

\* A JSON value as it stands in the text.
JSONValue(k, s, n) == [k |-> k, s |-> s, n |-> n]
JSONNull == JSONValue("null", "", 0)

\* JSON text is a sequence of tokens: braces, commas, the word null, and
\* members "key":value.  A key is the sequence of its pieces; the piece "_"
\* is the underscore byte, so k[1] is the byte Go reads as k[0].
Token(p, key, val) == [p |-> p, key |-> key, val |-> val]
LBrace == Token("{", <<>>, JSONNull)
RBrace == Token("}", <<>>, JSONNull)
Comma == Token(",", <<>>, JSONNull)
NullText == Token("null", <<>>, JSONNull)
Member(key, val) == Token("member", key, val)

\* json.Marshal of one value; NaN has no JSON form and makes Marshal fail.
Unsupported(v) == v.t = "float64" /\ v.s = "NaN"
EncodeValue(v) ==
    CASE v.t = "string" -> JSONValue("string", v.s, 0)
      [] v.t \in {"int", "int32", "float64"} -> JSONValue("number", "", v.n)
      [] v.t = "bool" -> JSONValue("bool", "", v.n)
      [] OTHER -> JSONNull

\* json.Unmarshal of one value into an interface{}: every number becomes a
\* float64.
DecodeValue(j) ==
    CASE j.k = "string" -> GoValue("string", j.s, 0)
      [] j.k = "number" -> GoValue("float64", "", j.n)
      [] j.k = "bool" -> GoValue("bool", "", j.n)
      [] OTHER -> GoNil

\* The text of an object with the given members, in their order.
EncodeObject(ms) ==
    LET n == Len(ms)
    IN  IF n = 0 THEN <<LBrace, RBrace>>
        ELSE [i \in 1..(2 * n + 1) |->
                 IF i = 1 THEN LBrace
                 ELSE IF i = 2 * n + 1 THEN RBrace
                 ELSE IF i % 2 = 0 THEN Member(ms[i \div 2].key, ms[i \div 2].val)
                 ELSE Comma]

\* A Go map: nil or not, and its entries.
EmptyMap == [k \in {} |-> GoNil]
NilExtra == [isNil |-> TRUE, kv |-> EmptyMap]
MakeExtra(kv) == [isNil |-> FALSE, kv |-> kv]

\* The zero Message.
ZeroMessage ==
    [Version |-> GoValue("string", "", 0), Host |-> GoValue("string", "", 0),
     Short |-> GoValue("string", "", 0), Full |-> GoValue("string", "", 0),
     TimeUnix |-> GoValue("float64", "", 0),
     Level |-> GoValue("int32", "", 0),
     Facility |-> GoValue("string", "", 0),
     File |-> GoValue("string", "", 0), Line |-> GoValue("int", "", 0),
     Extra |-> NilExtra]
NoOutcome == [kind |-> "none", rec |-> ZeroMessage]

\* The fixed fields of innerMessage under their json names, in struct order.
Fields(m) ==
    << [key |-> <<"version">>, v |-> m.Version],
       [key |-> <<"host">>, v |-> m.Host],
       [key |-> <<"short_message">>, v |-> m.Short],
       [key |-> <<"full_message">>, v |-> m.Full],
       [key |-> <<"timestamp">>, v |-> m.TimeUnix],
       [key |-> <<"level">>, v |-> m.Level],
       [key |-> <<"facility">>, v |-> m.Facility],
       [key |-> <<"file">>, v |-> m.File],
       [key |-> <<"line">>, v |-> m.Line] >>

\* json.Marshal((*innerMessage)(m)): Extra is tagged "-" and left out.
MarshalInner(m) ==
    LET fs == Fields(m)
    IN  IF \E i \in 1..Len(fs) : Unsupported(fs[i].v)
        THEN [err |-> TRUE, b |-> <<>>]
        ELSE [err |-> FALSE,
              b |-> EncodeObject([i \in 1..Len(fs) |->
                        [key |-> fs[i].key, val |-> EncodeValue(fs[i].v)]])]

\* Keys in the byte order json.Marshal sorts a map's keys by.
KeyOrder == << <<>>, <<"_", "a">>, <<"_", "b">>, <<"foo">>, <<"host">> >>

\* json.Marshal(extra)
MarshalExtra(kv) ==
    LET keys == SelectSeq(KeyOrder, LAMBDA k : k \in DOMAIN kv)
    IN  IF \E k \in DOMAIN kv : Unsupported(kv[k])
        THEN [err |-> TRUE, b |-> <<>>]
        ELSE [err |-> FALSE,
              b |-> EncodeObject([i \in 1..Len(keys) |->
                        [key |-> keys[i], val |-> EncodeValue(kv[keys[i]])]])]

\* A merge that keeps the closing brace of b.
SpliceKeepBrace(b, eb) == b \o Tail(eb)

\* b[len(b)-1] = ','; append(b, eb[1:len(eb)]...)
Splice(b, eb) == [b EXCEPT ![Len(b)] = Comma] \o Tail(eb)

MarshalJSON(m) ==
    LET b == MarshalInner(m)
        eb == MarshalExtra(m.Extra.kv)
    IN  IF b.err THEN b
        ELSE IF Cardinality(DOMAIN m.Extra.kv) = 0 THEN b
        ELSE IF eb.err THEN eb
        ELSE [err |-> FALSE, b |-> Splice(b.b, eb.b)]

\* The text is one object: braces around members separated by commas.
WellFormedObject(data) ==
    /\ Len(data) >= 2
    /\ data[1] = LBrace
    /\ data[Len(data)] = RBrace
    /\ Len(data) = 2 \/ Len(data) % 2 = 1
    /\ \A i \in 2..(Len(data) - 1) :
          data[i].p = IF i % 2 = 0 THEN "member" ELSE ","

\* json.Unmarshal(data, &i) into a map[string]interface{}: the text null
\* leaves the map empty, a repeated key keeps its last value.
UnmarshalMap(data) ==
    IF data = <<NullText>> THEN [err |-> FALSE, i |-> EmptyMap]
    ELSE IF ~WellFormedObject(data) THEN [err |-> TRUE, i |-> EmptyMap]
    ELSE LET at == {j \in 1..Len(data) : data[j].p = "member"}
             last(k) == CHOOSE j \in at :
                            /\ data[j].key = k
                            /\ \A h \in at : data[h].key = k => h <= j
         IN  [err |-> FALSE,
              i |-> [k \in {data[j].key : j \in at} |->
                        DecodeValue(data[last(k)].val)]]

\* The dynamic type the unchecked assertion of a fixed field asks for.
StringFields == { <<"version">>, <<"host">>, <<"short_message">>,
                  <<"full_message">>, <<"facility">>, <<"file">> }
NumberFields == { <<"timestamp">>, <<"level">>, <<"line">> }

\* k[0] == '_'
IsExtraKey(k) == k[1] = "_"

\* The loop body panics on key k with value v: k[0] of an empty key, or a
\* failed v.(string) or v.(float64).
Panics(k, v) ==
    \/ Len(k) = 0
    \/ /\ ~IsExtraKey(k)
       /\ \/ k \in StringFields /\ v.t # "string"
          \/ k \in NumberFields /\ v.t # "float64"

\* The Message after the loop over i has run without a panic.
Assign(m, i) ==
    LET ek == {k \in DOMAIN i : IsExtraKey(k)}
        str(k, old) == IF k \in DOMAIN i THEN i[k] ELSE old
        num(k, t, old) ==
            IF k \in DOMAIN i THEN GoValue(t, "", i[k].n) ELSE old
    IN  [Version |-> str(<<"version">>, m.Version),
         Host |-> str(<<"host">>, m.Host),
         Short |-> str(<<"short_message">>, m.Short),
         Full |-> str(<<"full_message">>, m.Full),
         TimeUnix |-> num(<<"timestamp">>, "float64", m.TimeUnix),
         Level |-> num(<<"level">>, "int32", m.Level),
         Facility |-> str(<<"facility">>, m.Facility),
         File |-> str(<<"file">>, m.File),
         Line |-> num(<<"line">>, "int", m.Line),
         Extra |-> IF ek = {} THEN m.Extra
                   ELSE MakeExtra([k \in DOMAIN m.Extra.kv \cup ek |->
                                      IF k \in ek THEN i[k]
                                      ELSE m.Extra.kv[k]])]

\* UnmarshalJSON: an error of json.Unmarshal, a panic in the loop (the
\* Message is then not handed back), or the Message assigned.
UnmarshalJSON(data, m) ==
    LET u == UnmarshalMap(data)
    IN  IF u.err THEN [kind |-> "error", rec |-> m]
        ELSE IF \E k \in DOMAIN u.i : Panics(k, u.i[k])
        THEN [kind |-> "panic", rec |-> ZeroMessage]
        ELSE [kind |-> "ok", rec |-> Assign(m, u.i)]

\* ------------------------------------------------------------------- Init
Init ==
    /\ mu = FALSE
    /\ CompressionType = CompressGzip
    /\ CompressionLevel = 1
    /\ zw = NilZw
    /\ zwCompressionType = CompressGzip
    /\ zwCompressionLevel = 0
    /\ conn = <<>>
    /\ pc = [c \in Callers |-> "idle"]
    /\ mBytes = [c \in Callers |-> NoBytes]
    /\ zBytes = [c \in Callers |-> NoBytes]
    /\ nChunks = [c \in Callers |-> 0]
    /\ msgId = [c \in Callers |-> 0]
    /\ idx = [c \in Callers |-> 0]
    /\ bytesLeft = [c \in Callers |-> 0]
    /\ err = [c \in Callers |-> "nil"]
    /\ swType = [c \in Callers |-> NotRead]
    /\ rdLevel = [c \in Callers |-> NotRead]
    /\ wIn = <<>>
    /\ wP = <<>>
    /\ wMsg = NoMessage
    /\ wRet = NoReturn
    /\ cpc = "idle"
    /\ cRec = ZeroMessage
    /\ cData = <<>>
    /\ cOut = NoOutcome

\* ---------------------------------------------------------------- actions
\* Some goroutine assigns the exported fields.  Nothing synchronises the
\* assignment with a send: it can fall between any two of the send's reads.
SetCompression(t, l) ==
    /\ <<t, l>> # <<CompressionType, CompressionLevel>>
    /\ CompressionType' = t
    /\ CompressionLevel' = l
    /\ UNCHANGED <<mu, zw, zwCompressionType, zwCompressionLevel, conn, pc,
                   mBytes, zBytes, nChunks, msgId, idx, bytesLeft, err, sendLocals>>

\* Lock without mutual exclusion.
LockNoMutex(c) ==
    /\ pc[c] = "lock"
    /\ mu' = TRUE
    /\ pc' = [pc EXCEPT ![c] = "compress"]
    /\ conn' = IF \A d \in Callers : pc[d] \in {"idle", "lock"}
               THEN <<>> ELSE conn
    /\ UNCHANGED <<writerVars, mBytes, zBytes, chunkLocals, err, sendLocals>>

\* A caller enters WriteMessage and reaches w.mu.Lock().
Call(c) ==
    /\ pc[c] = "idle"
    /\ pc' = [pc EXCEPT ![c] = "lock"]
    /\ UNCHANGED <<mu, writerVars, conn, mBytes, zBytes, chunkLocals, err,
                   sendLocals>>

\* w.mu.Lock() returns.  conn starts afresh when no send is under way.
Lock(c) ==
    /\ pc[c] = "lock"
    /\ ~mu
    /\ mu' = TRUE
    /\ pc' = [pc EXCEPT ![c] = "compress"]
    /\ conn' = IF \A d \in Callers : pc[d] \in {"idle", "lock"}
               THEN <<>> ELSE conn
    /\ UNCHANGED <<writerVars, mBytes, zBytes, chunkLocals, err, sendLocals>>

\* w.zw.Reset(&zBuf), Write, Close and zBuf.Bytes() with the compressor z,
\* and the numChunks test.  Reset on a nil compressor panics.
Emit(c, z, zlen) ==
    IF ~z.ptr
    THEN /\ err' = [err EXCEPT ![c] = "panic"]
         /\ pc' = [pc EXCEPT ![c] = "ret"]
         /\ UNCHANGED zBytes
    ELSE LET zb == Compressed(z, mBytes[c], zlen)
         IN  /\ zBytes' = [zBytes EXCEPT ![c] = zb]
             /\ pc' = [pc EXCEPT ![c] =
                         IF numChunks(zb.len) > 1 THEN "chunked" ELSE "single"]
             /\ UNCHANGED err

\* json.Marshal(m) and the left operand of the configuration check: the
\* read of w.CompressionType at line 235.
Compress(c, m) ==
    /\ pc[c] = "compress"
    /\ IF ~m.ok
       THEN /\ err' = [err EXCEPT ![c] = "marshal"]
            /\ pc' = [pc EXCEPT ![c] = "ret"]
            /\ UNCHANGED <<zw, mBytes>>
       ELSE /\ mBytes' = [mBytes EXCEPT ![c] =
                            [fmt |-> "json", level |-> 0, len |-> m.len]]
            /\ IF zwCompressionType # CompressionType
               THEN /\ zw' = NilZw
                    /\ pc' = [pc EXCEPT ![c] = "switch"]
               ELSE /\ pc' = [pc EXCEPT ![c] = "checklevel"]
                    /\ UNCHANGED zw
            /\ UNCHANGED err
    /\ UNCHANGED <<mu, CompressionType, CompressionLevel, zwCompressionType,
                   zwCompressionLevel, conn, zBytes, chunkLocals, sendLocals>>

\* The right operand of the configuration check: the read of
\* w.CompressionLevel at line 235.
CheckLevel(c) ==
    /\ pc[c] = "checklevel"
    /\ rdLevel' = [rdLevel EXCEPT ![c] = CompressionLevel]
    /\ zw' = IF zwCompressionLevel # CompressionLevel THEN NilZw ELSE zw
    /\ pc' = [pc EXCEPT ![c] = "switch"]
    /\ UNCHANGED <<mu, CompressionType, CompressionLevel, zwCompressionType,
                   zwCompressionLevel, conn, mBytes, zBytes, chunkLocals,
                   err, swType>>

\* The switch: the read of w.CompressionType at line 239.  A case that
\* constructs nothing goes on to compress.
Switch(c, zlen) ==
    /\ pc[c] = "switch"
    /\ swType' = [swType EXCEPT ![c] = CompressionType]
    /\ IF ~KnownType
       THEN /\ err' = [err EXCEPT ![c] = "panic"]
            /\ pc' = [pc EXCEPT ![c] = "ret"]
            /\ UNCHANGED <<zw, zBytes>>
       ELSE IF Constructs(zw)
       THEN /\ pc' = [pc EXCEPT ![c] = "newwriter"]
            /\ UNCHANGED <<zw, zBytes, err>>
       ELSE /\ zw' = SelectWriter(zw)
            /\ Emit(c, SelectWriter(zw), zlen)
    /\ UNCHANGED <<mu, CompressionType, CompressionLevel, zwCompressionType,
                   zwCompressionLevel, conn, mBytes, chunkLocals, rdLevel>>

\* gzip.NewWriterLevel or zlib.NewWriterLevel: the read of
\* w.CompressionLevel at line 242 or 246, then the error check and the
\* compression.
NewWriter(c, zlen) ==
    /\ pc[c] = "newwriter"
    /\ rdLevel' = [rdLevel EXCEPT ![c] = CompressionLevel]
    /\ LET z == NewWriterLevel(IF swType[c] = CompressGzip
                               THEN "gzip" ELSE "zlib", CompressionLevel)
       IN  /\ zw' = z
           /\ IF ~z.ptr
              THEN /\ err' = [err EXCEPT ![c] = "level"]
                   /\ pc' = [pc EXCEPT ![c] = "ret"]
                   /\ UNCHANGED zBytes
              ELSE Emit(c, z, zlen)
    /\ UNCHANGED <<mu, CompressionType, CompressionLevel, zwCompressionType,
                   zwCompressionLevel, conn, mBytes, chunkLocals, swType>>

\* writeChunked up to the loop: the capacity check and the message id.
StartChunked(c, id, randOk) ==
    /\ pc[c] = "chunked"
    /\ LET nChunksI == numChunks(zBytes[c].len)
       IN  IF TooLarge(nChunksI)
           THEN /\ err' = [err EXCEPT ![c] = "toolarge"]
                /\ pc' = [pc EXCEPT ![c] = "ret"]
                /\ UNCHANGED chunkLocals
           ELSE IF ~randOk
           THEN /\ err' = [err EXCEPT ![c] = "rand"]
                /\ pc' = [pc EXCEPT ![c] = "ret"]
                /\ nChunks' = [nChunks EXCEPT ![c] = Uint8(nChunksI)]
                /\ UNCHANGED <<msgId, idx, bytesLeft>>
           ELSE /\ nChunks' = [nChunks EXCEPT ![c] = Uint8(nChunksI)]
                /\ msgId' = [msgId EXCEPT ![c] = id]
                /\ bytesLeft' = [bytesLeft EXCEPT ![c] = zBytes[c].len]
                /\ idx' = [idx EXCEPT ![c] = 0]
                /\ pc' = [pc EXCEPT ![c] = "loop"]
                /\ UNCHANGED err
    /\ UNCHANGED <<mu, writerVars, conn, mBytes, zBytes, sendLocals>>

\* One iteration of the chunk loop; out is what conn.Write returns.
WriteChunk(c, out) ==
    /\ pc[c] = "loop"
    /\ LoopCond(idx[c], nChunks[c])
    /\ LET chunkLen == ChunkLen(bytesLeft[c])
           off == ChunkOff(idx[c])
           d == Datagram(c, TRUE, msgId[c], SeqByte(idx[c]),
                         TotalByte(nChunks[c]), zBytes[c], off, chunkLen, out)
           e == WriteCheck(d.res, d.size)
       IN  IF off > zBytes[c].len \/ chunkLen < 0
              \/ off + chunkLen > zBytes[c].len
           THEN /\ err' = [err EXCEPT ![c] = "panic"]
                /\ pc' = [pc EXCEPT ![c] = "ret"]
                /\ UNCHANGED <<conn, idx, bytesLeft>>
           ELSE /\ conn' = Append(conn, d)
                /\ IF e = "nil"
                   THEN /\ bytesLeft' = [bytesLeft EXCEPT ![c] = @ - chunkLen]
                        /\ idx' = [idx EXCEPT ![c] = Uint8(@ + 1)]
                        /\ UNCHANGED <<pc, err>>
                   ELSE /\ err' = [err EXCEPT ![c] = e]
                        /\ pc' = [pc EXCEPT ![c] = "ret"]
                        /\ UNCHANGED <<idx, bytesLeft>>
    /\ UNCHANGED <<mu, writerVars, mBytes, zBytes, nChunks, msgId, sendLocals>>

\* The loop has ended: the bytesLeft check and the return of writeChunked.
EndChunked(c) ==
    /\ pc[c] = "loop"
    /\ ~LoopCond(idx[c], nChunks[c])
    /\ err' = [err EXCEPT ![c] = IF bytesLeft[c] # 0 THEN "left" ELSE "nil"]
    /\ pc' = [pc EXCEPT ![c] = "ret"]
    /\ UNCHANGED <<mu, writerVars, conn, mBytes, zBytes, chunkLocals, sendLocals>>

\* The unchunked write at the end of WriteMessage.
WriteSingle(c, out) ==
    /\ pc[c] = "single"
    /\ LET d == Datagram(c, FALSE, 0, 0, 0, zBytes[c], 0, zBytes[c].len, out)
       IN  /\ conn' = Append(conn, d)
           /\ err' = [err EXCEPT ![c] = WriteCheck(d.res, d.size)]
    /\ pc' = [pc EXCEPT ![c] = "ret"]
    /\ UNCHANGED <<mu, writerVars, mBytes, zBytes, chunkLocals, sendLocals>>

\* Unlock that releases the lock only when the send succeeded.
UnlockOnSuccess(c) ==
    /\ pc[c] = "ret"
    /\ mu' = IF err[c] = "nil" THEN FALSE ELSE mu
    /\ pc' = [pc EXCEPT ![c] = "idle"]
    /\ mBytes' = [mBytes EXCEPT ![c] = NoBytes]
    /\ zBytes' = [zBytes EXCEPT ![c] = NoBytes]
    /\ nChunks' = [nChunks EXCEPT ![c] = 0]
    /\ msgId' = [msgId EXCEPT ![c] = 0]
    /\ idx' = [idx EXCEPT ![c] = 0]
    /\ bytesLeft' = [bytesLeft EXCEPT ![c] = 0]
    /\ err' = [err EXCEPT ![c] = "nil"]
    /\ swType' = [swType EXCEPT ![c] = NotRead]
    /\ rdLevel' = [rdLevel EXCEPT ![c] = NotRead]
    /\ UNCHANGED <<writerVars, conn>>

\* The deferred w.mu.Unlock() and the return to the caller.
Unlock(c) ==
    /\ pc[c] = "ret"
    /\ mu' = FALSE
    /\ pc' = [pc EXCEPT ![c] = "idle"]
    /\ mBytes' = [mBytes EXCEPT ![c] = NoBytes]
    /\ zBytes' = [zBytes EXCEPT ![c] = NoBytes]
    /\ nChunks' = [nChunks EXCEPT ![c] = 0]
    /\ msgId' = [msgId EXCEPT ![c] = 0]
    /\ idx' = [idx EXCEPT ![c] = 0]
    /\ bytesLeft' = [bytesLeft EXCEPT ![c] = 0]
    /\ err' = [err EXCEPT ![c] = "nil"]
    /\ swType' = [swType EXCEPT ![c] = NotRead]
    /\ rdLevel' = [rdLevel EXCEPT ![c] = NotRead]
    /\ UNCHANGED <<writerVars, conn>>

\* ------------------------------------------------------------------ inputs
Remainders == {0, chunkedHeaderLen, chunkedHeaderLen + 1}
Lens == {q * chunkedDataLen + r : q \in 0..MaxFullChunks, r \in Remainders}
            \ {0}
LargeLens == {(maxChunks - 1) * chunkedDataLen,
              maxChunks * chunkedDataLen - 1,
              maxChunks * chunkedDataLen,
              maxChunks * chunkedDataLen + 1}
Messages(L) == [len : L, ok : {TRUE}] \cup [len : {chunkedHeaderLen},
                                             ok : {FALSE}]
Types == {CompressGzip, CompressZlib, NoCompress, 3}
Levels == {0, 1, 10}
WriteResults == {"ok", "werr", "short"}

\* The largest single datagram and the smallest chunked send.
EdgeLens == {ChunkSize, ChunkSize + 1}

Next ==
    \/ \E t \in Types, l \in Levels :
           SetCompression(t, l) /\ UNCHANGED extVars
    \/ \E c \in Callers : Call(c) /\ UNCHANGED extVars
    \/ \E c \in Callers : Lock(c) /\ UNCHANGED extVars
    \/ \E c \in Callers, m \in Messages(EdgeLens) :
           Compress(c, m) /\ UNCHANGED extVars
    \/ \E c \in Callers : CheckLevel(c) /\ UNCHANGED extVars
    \/ \E c \in Callers, zlen \in EdgeLens :
           Switch(c, zlen) /\ UNCHANGED extVars
    \/ \E c \in Callers, zlen \in EdgeLens :
           NewWriter(c, zlen) /\ UNCHANGED extVars
    \/ \E c \in Callers, id \in MsgIds, randOk \in BOOLEAN :
           StartChunked(c, id, randOk) /\ UNCHANGED extVars
    \/ \E c \in Callers, out \in WriteResults :
           WriteChunk(c, out) /\ UNCHANGED extVars
    \/ \E c \in Callers : EndChunked(c) /\ UNCHANGED extVars
    \/ \E c \in Callers, out \in WriteResults :
           WriteSingle(c, out) /\ UNCHANGED extVars
    \/ \E c \in Callers : Unlock(c) /\ UNCHANGED extVars

Spec == Init /\ [][Next]_vars

\* One caller, buffers up to and beyond the 255-chunk capacity.
AllLens == Lens \cup LargeLens
NextLarge ==
    \/ \E t \in {CompressGzip, NoCompress} :
           SetCompression(t, 1) /\ UNCHANGED extVars
    \/ Call(1) /\ UNCHANGED extVars
    \/ Lock(1) /\ UNCHANGED extVars
    \/ \E m \in Messages(AllLens) : Compress(1, m) /\ UNCHANGED extVars
    \/ CheckLevel(1) /\ UNCHANGED extVars
    \/ \E zlen \in AllLens : Switch(1, zlen) /\ UNCHANGED extVars
    \/ \E zlen \in AllLens : NewWriter(1, zlen) /\ UNCHANGED extVars
    \/ \E id \in MsgIds, randOk \in BOOLEAN :
           StartChunked(1, id, randOk) /\ UNCHANGED extVars
    \/ \E out \in WriteResults : WriteChunk(1, out) /\ UNCHANGED extVars
    \/ EndChunked(1) /\ UNCHANGED extVars
    \/ \E out \in WriteResults : WriteSingle(1, out) /\ UNCHANGED extVars
    \/ Unlock(1) /\ UNCHANGED extVars

SpecLarge == Init /\ [][NextLarge]_vars

\* Sends under scheduling assumptions.  A caller inside WriteMessage keeps
\* running and every conn.Write returns (weak fairness of its steps); a
\* caller blocked in w.mu.Lock() gets the mutex when it is released often
\* enough (sync.Mutex hands the lock to a starving waiter: strong fairness).
Acquire(c) == Lock(c) /\ UNCHANGED extVars

SendStep(c) ==
    \/ \E m \in Messages(EdgeLens) : Compress(c, m) /\ UNCHANGED extVars
    \/ CheckLevel(c) /\ UNCHANGED extVars
    \/ \E zlen \in EdgeLens : Switch(c, zlen) /\ UNCHANGED extVars
    \/ \E zlen \in EdgeLens : NewWriter(c, zlen) /\ UNCHANGED extVars
    \/ \E randOk \in BOOLEAN :
           StartChunked(c, 1, randOk) /\ UNCHANGED extVars
    \/ \E out \in WriteResults : WriteChunk(c, out) /\ UNCHANGED extVars
    \/ EndChunked(c) /\ UNCHANGED extVars
    \/ \E out \in WriteResults : WriteSingle(c, out) /\ UNCHANGED extVars
    \/ Unlock(c) /\ UNCHANGED extVars

NextFair ==
    \/ \E t \in {CompressGzip, 3}, l \in {1, 10} :
           SetCompression(t, l) /\ UNCHANGED extVars
    \/ \E c \in Callers : Call(c) /\ UNCHANGED extVars
    \/ \E c \in Callers : Acquire(c)
    \/ \E c \in Callers : SendStep(c)

SpecFair ==
    /\ Init
    /\ [][NextFair]_vars
    /\ \A c \in Callers : WF_vars(SendStep(c)) /\ SF_vars(Acquire(c))

\* The stream adapter: caller 1 sends through UDPWriter.Write.
\* Write up to its call of WriteMessage, which reaches w.mu.Lock().
WriteEnter(p) ==
    /\ pc[1] = "idle"
    /\ wIn' = p
    /\ wP' = TrimSpace(p)
    /\ wMsg' = BuildMessage(TrimSpace(p))
    /\ wRet' = NoReturn
    /\ UNCHANGED codecVars
    /\ Call(1)

\* WriteMessage returns into Write, and Write returns.
WriteReturn ==
    /\ pc[1] = "ret"
    /\ wRet' = WriteResult(wP, err[1])
    /\ UNCHANGED <<wIn, wP, wMsg, codecVars>>
    /\ Unlock(1)

RECURSIVE SeqsUpTo(_, _)
SeqsUpTo(S, n) ==
    IF n = 0 THEN {<<>>}
    ELSE LET shorter == SeqsUpTo(S, n - 1)
         IN  shorter \cup {Append(q, x) : q \in shorter, x \in S}
Inputs == SeqsUpTo({" ", "\n", "a"}, MaxInput)

NextWrite ==
    \/ \E t \in {CompressGzip, 3} :
           SetCompression(t, 1) /\ UNCHANGED extVars
    \/ \E p \in Inputs : WriteEnter(p)
    \/ Lock(1) /\ UNCHANGED extVars
    \/ \E n \in EdgeLens :
           Compress(1, [len |-> n, ok |-> TRUE]) /\ UNCHANGED extVars
    \/ CheckLevel(1) /\ UNCHANGED extVars
    \/ \E zlen \in EdgeLens : Switch(1, zlen) /\ UNCHANGED extVars
    \/ \E zlen \in EdgeLens : NewWriter(1, zlen) /\ UNCHANGED extVars
    \/ \E id \in MsgIds, randOk \in BOOLEAN :
           StartChunked(1, id, randOk) /\ UNCHANGED extVars
    \/ \E out \in WriteResults : WriteChunk(1, out) /\ UNCHANGED extVars
    \/ EndChunked(1) /\ UNCHANGED extVars
    \/ \E out \in WriteResults : WriteSingle(1, out) /\ UNCHANGED extVars
    \/ WriteReturn

SpecWrite == Init /\ [][NextWrite]_vars

\* The codec: a Message is encoded and its text decoded into a fresh
\* Message, or a text from outside is decoded.
Encode(m) ==
    /\ cpc = "idle"
    /\ cRec' = m
    /\ cData' = MarshalJSON(m).b
    /\ cpc' = IF MarshalJSON(m).err THEN "encfail" ELSE "encoded"
    /\ cOut' = NoOutcome
    /\ UNCHANGED <<sendVars, adapterVars>>

Feed(data) ==
    /\ cpc = "idle"
    /\ cData' = data
    /\ cpc' = "fed"
    /\ UNCHANGED <<cRec, cOut, sendVars, adapterVars>>

Decode ==
    /\ cpc \in {"encoded", "fed"}
    /\ cOut' = UnmarshalJSON(cData, ZeroMessage)
    /\ cpc' = IF cpc = "encoded" THEN "roundtrip" ELSE "decoded"
    /\ UNCHANGED <<cRec, cData, sendVars, adapterVars>>

Done ==
    /\ cpc \in {"encfail", "roundtrip", "decoded"}
    /\ cpc' = "idle"
    /\ cRec' = ZeroMessage
    /\ cData' = <<>>
    /\ cOut' = NoOutcome
    /\ UNCHANGED <<sendVars, adapterVars>>

ExtKeys == {KeyOrder[i] : i \in 1..Len(KeyOrder)}
ExtValues == {GoValue("string", "x", 0), GoValue("int", "", 42),
              GoValue("float64", "", 42), GoValue("bool", "", 1), GoNil,
              GoValue("float64", "NaN", 0)}
Extras ==
    {NilExtra} \cup
    {MakeExtra(kv) :
        kv \in UNION {[K -> ExtValues] :
                         K \in {S \in SUBSET ExtKeys :
                                   Cardinality(S) <= MaxFields}}}
Boot == [ZeroMessage EXCEPT !.Version = GoValue("string", "1.0", 0),
                            !.Short = GoValue("string", "boot", 0),
                            !.Level = GoValue("int32", "", 6)]
Records ==
    {[m EXCEPT !.Extra = e] :
        m \in {ZeroMessage, Boot,
               [Boot EXCEPT !.TimeUnix = GoValue("float64", "NaN", 0)]},
        e \in Extras}

DocKeys == { <<"host">>, <<"level">>, <<"_", "a">>, <<>>, <<"foo">> }
DocValues == {JSONValue("string", "x", 0), JSONValue("number", "", 6),
              JSONValue("bool", "", 1), JSONNull}
DocMembers == {[key |-> k, val |-> v] : k \in DocKeys, v \in DocValues}
Texts ==
    {<<NullText>>, <<LBrace>>} \cup
    {EncodeObject(ms) : ms \in SeqsUpTo(DocMembers, MaxFields)}

NextCodec ==
    \/ \E m \in Records : Encode(m)
    \/ \E data \in Texts : Feed(data)
    \/ Decode
    \/ Done

SpecCodec == Init /\ [][NextCodec]_vars

\* ================================================================= claims
InSend(c) == pc[c] \notin {"idle", "lock"}
SentBy(c) == SelectSeq(conn, LAMBDA d : d.by = c)
Last(q) == q[Len(q)]
\* A send that ended in success after producing a compressed buffer.
Succeeded(c) == pc[c] = "ret" /\ err[c] = "nil" /\ zBytes[c] # NoBytes

\* C1: a send runs under the writer's lock from encode to the last write:
\* at most one caller is inside a send, the lock is held meanwhile, and the
\* datagrams of one caller's send are contiguous on the connection.
C1_SendsSerialized ==
    /\ \A c \in Callers :
          InSend(c) => mu /\ \A d \in Callers \ {c} : ~InSend(d)
    /\ \A i \in 1..Len(conn) : \A k \in i..Len(conn) :
          conn[i].by = conn[k].by =>
              \A j \in i..k : conn[j].by = conn[i].by

\* C1 witness: a chunked send is past its first chunk while another caller
\* waits in Lock.
C1_Witness ==
    \E c \in Callers : \E d \in Callers \ {c} :
        /\ pc[c] = "loop" /\ idx[c] >= 1 /\ Len(conn) >= 1
        /\ pc[d] = "lock"

\* C2: the compressor that produced a send's output has the type and the
\* level configured at that send, that is, the type the send's switch read
\* and the level the send last read.
C2_CompressorMatchesConfig ==
    \A c \in Callers :
        InSend(c) /\ zBytes[c] # NoBytes =>
            CASE swType[c] = CompressGzip ->
                    /\ zBytes[c].fmt = "gzip"
                    /\ zBytes[c].level = rdLevel[c]
              [] swType[c] = CompressZlib ->
                    /\ zBytes[c].fmt = "zlib"
                    /\ zBytes[c].level = rdLevel[c]
              [] swType[c] = NoCompress -> zBytes[c].fmt = "json"
              [] OTHER -> FALSE

\* C3: after a successful chunked send, the chunk payloads taken in
\* sequence order are slices of the compressed buffer laid end to end: the
\* first starts at byte 0, each next one starts where the one before it
\* ended, and the last ends at the buffer's end, so that their
\* concatenation is the buffer with no byte left out or repeated.
C3_ChunksReassemble ==
    \A c \in Callers :
        Succeeded(c) /\ Len(SentBy(c)) >= 1 /\ SentBy(c)[1].chunked =>
            /\ SentBy(c)[1].off = 0
            /\ \A k \in 1..Len(SentBy(c)) :
                  /\ SentBy(c)[k].buf = zBytes[c]
                  /\ SentBy(c)[k].seq = k - 1
                  /\ SentBy(c)[k].len >= 0
                  /\ k > 1 => SentBy(c)[k].off =
                        SentBy(c)[k - 1].off + SentBy(c)[k - 1].len
            /\ Last(SentBy(c)).off + Last(SentBy(c)).len = zBytes[c].len

\* C3 witness: a successful chunked send of at least two chunks whose last
\* chunk is a partial one.
C3_Witness ==
    \E c \in Callers :
        /\ Succeeded(c) /\ Len(SentBy(c)) >= 2
        /\ Last(SentBy(c)).chunked
        /\ Last(SentBy(c)).len \in 1..(chunkedDataLen - 1)

\* The number of chunks of chunkedDataLen bytes a buffer of n bytes needs.
Needed(n) == (n + chunkedDataLen - 1) \div chunkedDataLen

\* C4: a send whose compressed buffer needs more than 255 chunks writes no
\* datagram and ends in the message-too-large error.
C4_TooLargeSendsNothing ==
    \A c \in Callers :
        zBytes[c] # NoBytes /\ Needed(zBytes[c].len) > maxChunks =>
            /\ pc[c] \in {"chunked", "ret"}
            /\ pc[c] = "ret" => err[c] = "toolarge"
            /\ SentBy(c) = <<>>

\* C4 witness: a send of a buffer needing 256 chunks has ended.
C4_Witness ==
    \E c \in Callers :
        /\ pc[c] = "ret" /\ err[c] = "toolarge"
        /\ Needed(zBytes[c].len) > maxChunks

\* C5: a datagram write that fails or is short is the last write of its
\* send: the send ends with an error, the failed chunk i was preceded by
\* chunks 0..i-1, all written in full, and nothing follows it.
C5_FailedWriteEndsSend ==
    \A k \in 1..Len(conn) :
        (conn[k].res.err \/ conn[k].res.n # conn[k].size) =>
            /\ k = Len(conn)
            /\ pc[conn[k].by] \in {"ret", "idle", "lock"}
            /\ pc[conn[k].by] = "ret" =>
                   err[conn[k].by] \in {"werr", "short"}
            /\ conn[k].chunked => conn[k].seq = k - 1
            /\ \A j \in 1..(k - 1) :
                   /\ conn[j].by = conn[k].by
                   /\ conn[j].seq = j - 1
                   /\ ~conn[j].res.err /\ conn[j].res.n = conn[j].size

\* C5 witness: a short write at a chunk after the first has ended a send.
C5_Witness ==
    \E c \in Callers :
        /\ pc[c] = "ret" /\ err[c] = "short"
        /\ Len(conn) >= 2 /\ Last(conn).chunked /\ Last(conn).by = c
        /\ Last(conn).res.n # Last(conn).size

\* C6: a successful send has written one datagram when unchunked and
\* `total` datagrams when chunked, the k-th of them (from 0) with sequence
\* index k.
C6_DatagramCountAndOrder ==
    \A c \in Callers :
        Succeeded(c) =>
            /\ Len(SentBy(c)) >= 1
            /\ IF SentBy(c)[1].chunked
               THEN /\ Len(SentBy(c)) = SentBy(c)[1].total
                    /\ \A k \in 1..Len(SentBy(c)) :
                          /\ SentBy(c)[k].chunked
                          /\ SentBy(c)[k].seq = k - 1
               ELSE Len(SentBy(c)) = 1

\* C6 witness: a successful chunked send of 255 datagrams.
C6_Witness ==
    \E c \in Callers :
        /\ Succeeded(c) /\ Len(SentBy(c)) = maxChunks
        /\ SentBy(c)[1].chunked

\* C7: every chunk starts with a 12-byte header: the magic 0x1e 0x0f, an
\* identifier equal to that of the message's other chunks, a sequence index
\* below the total, and a total equal to the message's chunk count, which
\* is at most 255.
C7_ChunkHeader ==
    \A k \in 1..Len(conn) :
        conn[k].chunked =>
            /\ conn[k].magic = <<30, 15>>
            /\ conn[k].size - conn[k].len = 12
            /\ conn[k].total = numChunks(conn[k].buf.len)
            /\ conn[k].total <= 255
            /\ conn[k].seq \in 0..(conn[k].total - 1)
            /\ k > 1 /\ conn[k - 1].by = conn[k].by =>
                   /\ conn[k - 1].id = conn[k].id
                   /\ conn[k - 1].total = conn[k].total

\* C7 witness: the last chunk of a 255-chunk message has been written.
C7_Witness ==
    /\ Len(conn) = maxChunks
    /\ Last(conn).chunked
    /\ Last(conn).seq = maxChunks - 1
    /\ Last(conn).total = maxChunks

\* C8: every datagram is at most ChunkSize bytes long and every chunk
\* payload at most chunkedDataLen bytes long.
C8_DatagramSize ==
    \A k \in 1..Len(conn) :
        /\ conn[k].size <= 1420
        /\ conn[k].chunked => conn[k].len <= 1408

\* C8 witness: a chunk with a full payload, ChunkSize bytes in all, has
\* been written.
C8_Witness ==
    /\ Len(conn) >= 1
    /\ Last(conn).chunked
    /\ Last(conn).len = chunkedDataLen
    /\ Last(conn).size = ChunkSize

\* C9: numChunks is 1 for a buffer of at most ChunkSize bytes and more than
\* 1 otherwise, and a send whose numChunks exceeds 255 ends in the capacity
\* error.
C9_NumChunks ==
    \A c \in Callers :
        zBytes[c] # NoBytes =>
            /\ zBytes[c].len <= 1420 => numChunks(zBytes[c].len) = 1
            /\ zBytes[c].len > 1420 => numChunks(zBytes[c].len) > 1
            /\ numChunks(zBytes[c].len) > 255 =>
                  /\ pc[c] \in {"chunked", "ret"}
                  /\ pc[c] = "ret" => err[c] = "toolarge"

\* C9 witness: a send of a buffer of exactly 255 * chunkedDataLen bytes,
\* for which numChunks is 256, has ended in the capacity error.
C9_Witness ==
    \E c \in Callers :
        /\ pc[c] = "ret" /\ err[c] = "toolarge"
        /\ numChunks(zBytes[c].len) = maxChunks + 1

\* C10: the last chunk of a chunked send carries len mod chunkedDataLen
\* bytes, or chunkedDataLen bytes when the length is an exact multiple;
\* every earlier chunk carries chunkedDataLen bytes.
C10_LastChunkRemainder ==
    \A k \in 1..Len(conn) :
        conn[k].chunked =>
            IF conn[k].seq = conn[k].total - 1
            THEN conn[k].len =
                    IF conn[k].buf.len % chunkedDataLen = 0
                    THEN chunkedDataLen
                    ELSE conn[k].buf.len % chunkedDataLen
            ELSE conn[k].len = chunkedDataLen

\* C11: a send of an encodable record whose configured gzip or zlib (type,
\* level) is that of the live cached compressor keeps that compressor and
\* constructs none: no step of its configuration check or of its switch,
\* taken while the configuration is that of the cached compressor, drops
\* the compressor or goes on to construct one.
C11_MatchingConfigReusesCompressor ==
    [][\A c \in Callers :
          (/\ pc[c] \in {"compress", "checklevel", "switch"}
           /\ pc'[c] # pc[c]
           /\ zw.ptr
           /\ \/ CompressionType = CompressGzip /\ zw.impl = "gzip"
              \/ CompressionType = CompressZlib /\ zw.impl = "zlib"
           /\ zw.level = CompressionLevel)
          => (zw' = zw /\ pc'[c] # "newwriter")]_vars

\* C12: a send whose compressed buffer is at most ChunkSize bytes hands
\* one datagram to the connection: the whole buffer, no chunk header; with
\* compression type none the buffer is the encoded record.
C12_SingleDatagramIsBuffer ==
    \A c \in Callers :
        pc[c] = "ret" /\ zBytes[c] # NoBytes /\ zBytes[c].len <= 1420 =>
            /\ Len(SentBy(c)) = 1
            /\ ~SentBy(c)[1].chunked
            /\ SentBy(c)[1].magic = <<>>
            /\ SentBy(c)[1].buf = zBytes[c]
            /\ SentBy(c)[1].off = 0
            /\ SentBy(c)[1].len = zBytes[c].len
            /\ SentBy(c)[1].size = zBytes[c].len
            /\ swType[c] = NoCompress =>
                   SentBy(c)[1].buf = mBytes[c]

\* C12 witness: an uncompressed record of exactly ChunkSize bytes has been
\* sent as one datagram.
C12_Witness ==
    \E c \in Callers :
        /\ pc[c] = "ret" /\ err[c] = "nil"
        /\ swType[c] = NoCompress
        /\ mBytes[c].len = ChunkSize
        /\ Len(SentBy(c)) = 1
        /\ SentBy(c)[1].buf = mBytes[c]

\* C13 as stated: every send with a compression type other than gzip, zlib
\* or none ends in the fatal configuration error and writes no datagram.
C13_UnknownTypeAlwaysFatal ==
    \A c \in Callers :
        pc[c] = "ret" /\ CompressionType \notin {0, 1, 2} =>
            err[c] = "panic" /\ SentBy(c) = <<>>

\* C13 amended: a send whose switch reads a compression type other than
\* gzip, zlib or none ends at once in the fatal configuration error,
\* without compressing and without writing a datagram; a send whose record
\* does not encode ends in the encoding error before it reads the type,
\* also without writing a datagram.
C13_UnknownTypeFatalAfterEncode ==
    \A c \in Callers :
        /\ (InSend(c) /\ swType[c] \notin {NotRead, 0, 1, 2}) =>
               /\ pc[c] = "ret"
               /\ err[c] = "panic"
               /\ zBytes[c] = NoBytes
               /\ SentBy(c) = <<>>
        /\ (pc[c] = "ret" /\ mBytes[c] = NoBytes) =>
               /\ err[c] = "marshal"
               /\ swType[c] = NotRead
               /\ SentBy(c) = <<>>

\* C13 witness: a send of an encodable record under an unknown type has
\* ended in the fatal error.
C13_Witness ==
    \E c \in Callers :
        /\ pc[c] = "ret" /\ swType[c] \notin {NotRead, 0, 1, 2}
        /\ mBytes[c] # NoBytes /\ err[c] = "panic"
        /\ conn = <<>>

\* C18: when the chunk loop ends, no byte is left, and no send ends in the
\* bytes-left error.
C18_NoBytesLeft ==
    \A c \in Callers :
        /\ pc[c] = "loop" /\ ~LoopCond(idx[c], nChunks[c]) =>
               bytesLeft[c] = 0
        /\ pc[c] = "ret" => err[c] # "left"

\* C18 witness: the loop of a 255-chunk send has ended.
C18_Witness ==
    \E c \in Callers :
        /\ pc[c] = "loop" /\ ~LoopCond(idx[c], nChunks[c])
        /\ nChunks[c] = maxChunks
        /\ bytesLeft[c] = 0

\* C19: the 8-bit chunk count equals the chunk count, from 2 to 255; the
\* 8-bit loop counter counts the chunks written and never passes the
\* count; a send without a write error ends after exactly count
\* iterations.
C19_LoopCounter ==
    \A c \in Callers :
        /\ pc[c] = "loop" =>
              /\ nChunks[c] = numChunks(zBytes[c].len)
              /\ nChunks[c] \in 2..255
              /\ idx[c] \in 0..nChunks[c]
              /\ idx[c] = Len(SentBy(c))
        /\ Succeeded(c) /\ numChunks(zBytes[c].len) > 1 =>
              /\ idx[c] = numChunks(zBytes[c].len)
              /\ Len(SentBy(c)) = numChunks(zBytes[c].len)

\* C19 witness: a send of 255 chunks has ended with the counter at 255.
C19_Witness ==
    \E c \in Callers :
        /\ Succeeded(c)
        /\ numChunks(zBytes[c].len) = 255
        /\ idx[c] = 255

\* C17: when Write returns without error, the count it returns is the
\* length of the slice the caller passed.
C17_WriteReturnsInputLength ==
    wRet.err = "nil" => wRet.n = Len(wIn)

\* C16: every exit of WriteMessage releases the lock and every started send
\* completes: the lock is held only while some send is under way, and, when
\* the callers are scheduled and every connection write returns, each caller
\* that entered WriteMessage eventually returns from it (with success, an
\* error, or the panic of the fatal path).
C16_LockReleasedSendsComplete ==
    /\ [](mu => \E c \in Callers : InSend(c))
    /\ \A c \in Callers : (pc[c] # "idle") ~> (pc[c] = "idle")

\* A caller waits for the lock while another send is on the fatal path.
C16_Witness ==
    \E c \in Callers, d \in Callers :
        pc[c] = "lock" /\ pc[d] = "ret" /\ err[d] = "panic" /\ mu

\* C14: decoding a well-formed JSON object, whatever the JSON types of its
\* values, ends by returning a record or an error; it never panics.
C14_DecodeNeverAborts ==
    (cpc \in {"decoded", "roundtrip"} /\ WellFormedObject(cData))
        => cOut.kind \in {"ok", "error"}

\* The entries of two extension mappings are the same (a nil map and an
\* empty map are both the empty mapping).
SameMapping(a, b) == a.kv = b.kv

\* Every key begins with an underscore and every value has a dynamic type
\* that decoding into interface{} gives back.
Reproducible(e) ==
    \A k \in DOMAIN e.kv :
        /\ Len(k) > 0
        /\ k[1] = "_"
        /\ e.kv[k].t \in {"string", "float64", "bool", "nil"}

\* C15 as stated: for every extension mapping E, decoding the encoding of a
\* record that carries E yields a record whose extension mapping equals E.
C15_ExtensionsRoundTrip ==
    cpc = "roundtrip"
        => cOut.kind = "ok" /\ SameMapping(cOut.rec.Extra, cRec.Extra)

\* C15 amended: for every extension mapping E whose keys all begin with an
\* underscore and whose values are strings, float64 numbers, booleans or
\* nil, decoding the encoding of a record that carries E into a fresh record
\* yields a record whose extension mapping has the entries of E.
C15_UnderscoreExtensionsRoundTrip ==
    (cpc = "roundtrip" /\ Reproducible(cRec.Extra))
        => cOut.kind = "ok" /\ SameMapping(cOut.rec.Extra, cRec.Extra)

\* A record with two reproducible extension entries has made the round trip.
C15_Witness ==
    /\ cpc = "roundtrip"
    /\ Reproducible(cRec.Extra)
    /\ Cardinality(DOMAIN cRec.Extra.kv) = 2
    /\ cOut.kind = "ok"
    /\ ~cOut.rec.Extra.isNil

====
